---- MODULE Spec2Model ----
(***************************************************************************)
(* Model of BatterySimulatorController.py: the Flask endpoint              *)
(* POST /simulate (simulate) and the worker thread body it starts          *)
(* (simulate_battery).  The server runs with threaded=True, so every       *)
(* request has its own handler thread, and every handler starts its own    *)
(* worker thread.                                                          *)
(*                                                                         *)
(* Units: voltages and capacities are in tenths (42 is 4.2 V, 86 is        *)
(* 8.6 A.h), currents in ampere, durations in hours and seconds.           *)
(* Python's None is the empty tuple, a value v that is present is <<v>>    *)
(* (result_holder["result"], the thread's return value); the id of a       *)
(* request is a string, and the id None is the string NoneId.              *)
(***************************************************************************)
EXTENDS Integers, Sequences, FiniteSets, TLC

\* Number of requests the server receives in one run.
NReq == 2
\* Largest number of time steps the engine returns for one solve.
MaxSamples == 2

Req == 1..NReq

None == <<>>
Some(v) == <<v>>
NoneId == "None"

\* The JSON bodies the job manager posts.  isObject is FALSE for a body
\* that is not a JSON object (data.get then raises).
Bodies ==
  << [isObject |-> FALSE, data |-> <<>>],
     [isObject |-> TRUE,  data |-> <<>>],
     [isObject |-> TRUE,  data |-> [id |-> "J1", upperVoltage |-> 20,
                                    lowerVoltage |-> 42]],
     [isObject |-> TRUE,  data |-> [id |-> "J2", time |-> 2, nominalCell |-> 90,
                                    controlCurrent |-> 8]],
     [isObject |-> TRUE,  data |-> [id |-> "J2", time |-> 0, lowerVoltage |-> 30]] >>

\* dict.get(key, default)
Get(data, key, default) == IF key \in DOMAIN data THEN data[key] ELSE default

\* Exceptions, by what str(e) shows.
SolverErrorExc == "SolverError: corrector convergence failed"
OtherExc       == "RuntimeError: unexpected"
ConnectionExc  == "ConnectionError: connection refused"
BodyExc        == "AttributeError: object has no attribute 'get'"

SolverPrefix == "SolverError:\nVoltage cut-off values should be relative to 2.5V and 4.2V: "
ErrorPrefix  == "Error: "
NoPrefix     == ""

VARIABLES
  hpc,               \* handler thread of each request: where simulate() is
  wpc,               \* worker thread of each request: where simulate_battery() is
  data,              \* the request's parsed body (isObject: it is a dict; data: its keys)
  hours, id,         \* simulate's locals
  custom_parameters,
  result_holder,     \* the per-request dict {"result": ...}
  seconds,           \* simulate_battery's locals
  combined_data,
  wret,              \* what simulate_battery returned to the Thread (nobody reads it)
  engineCalls,       \* number of safe_sim.solve calls made for the request
  posts,             \* the requests.post calls made for the request, in order
  response,          \* the HTTP response of the request
  lastStarted        \* the request whose thread.start() came last (0: none yet)

vars == << hpc, wpc, data, hours, id, custom_parameters, result_holder, seconds,
           combined_data, wret, engineCalls, posts, response, lastStarted >>

Init ==
  /\ hpc = [r \in Req |-> "idle"]
  /\ wpc = [r \in Req |-> "none"]
  /\ data = [r \in Req |-> None]
  /\ hours = [r \in Req |-> 0]
  /\ id = [r \in Req |-> NoneId]
  /\ custom_parameters = [r \in Req |-> <<>>]
  /\ result_holder = [r \in Req |-> None]
  /\ seconds = [r \in Req |-> 0]
  /\ combined_data = [r \in Req |-> None]
  /\ wret = [r \in Req |-> None]
  /\ engineCalls = [r \in Req |-> 0]
  /\ posts = [r \in Req |-> <<>>]
  /\ response = [r \in Req |-> None]
  /\ lastStarted = 0

\* CustomParameters with a fault: the default of the lower cutoff is 3.0 V
\* and a supplied control current is ignored.
CustomParameters_WrongDefaults(d) ==
  [upper   |-> Get(d, "upperVoltage", 42),
   lower   |-> Get(d, "lowerVoltage", 30),
   nominal |-> Get(d, "nominalCell", 86),
   current |-> 5]

\* simulate, lines 123-128: the parameter set built from the body d, with
\* the default of every absent key.
CustomParameters(d) ==
  [upper   |-> Get(d, "upperVoltage", 42),
   lower   |-> Get(d, "lowerVoltage", 25),
   nominal |-> Get(d, "nominalCell", 86),
   current |-> Get(d, "controlCurrent", 5)]

\* SimulatePrepare with a fault: a body that is no JSON object is taken for
\* an empty one, so nothing raises and the Thread is constructed for it.
SimulatePrepare_NoRaise(r) ==
  /\ hpc[r] = "idle"
  /\ \E i \in 1..Len(Bodies) :
       LET b == Bodies[i] IN
       /\ data' = [data EXCEPT ![r] = b]
       /\ hours' = [hours EXCEPT ![r] = Get(b.data, "time", 1)]
       /\ id' = [id EXCEPT ![r] = Get(b.data, "id", NoneId)]
       /\ custom_parameters' = [custom_parameters EXCEPT ![r] =
                                  CustomParameters(b.data)]
       /\ result_holder' = [result_holder EXCEPT ![r] = None]
       /\ hpc' = [hpc EXCEPT ![r] = "created"]
  /\ UNCHANGED << wpc, seconds, combined_data, wret, engineCalls, posts,
                  response, lastStarted >>

\* simulate, lines 84-135: read the body (line 84), build the parameters and
\* the result holder, construct the Thread; a body that is no JSON object
\* raises at line 87 and is answered by the except clause (line 146).
SimulatePrepare(r) ==
  /\ hpc[r] = "idle"
  /\ \E i \in 1..Len(Bodies) :
       LET b == Bodies[i] IN
       /\ data' = [data EXCEPT ![r] = b]
       /\ IF b.isObject
          THEN /\ hours' = [hours EXCEPT ![r] = Get(b.data, "time", 1)]
               /\ id' = [id EXCEPT ![r] = Get(b.data, "id", NoneId)]
               /\ custom_parameters' = [custom_parameters EXCEPT ![r] =
                                          CustomParameters(b.data)]
               /\ result_holder' = [result_holder EXCEPT ![r] = None]
               /\ hpc' = [hpc EXCEPT ![r] = "created"]
               /\ UNCHANGED response
          ELSE /\ response' = [response EXCEPT ![r] =
                                 Some([error |-> << NoPrefix, BodyExc >>])]
               /\ hpc' = [hpc EXCEPT ![r] = "responded"]
               /\ UNCHANGED << hours, id, custom_parameters, result_holder >>
  /\ UNCHANGED << wpc, seconds, combined_data, wret, engineCalls, posts, lastStarted >>

\* simulate, line 136: thread.start()
SimulateStart(r) ==
  /\ hpc[r] = "created"
  /\ hpc' = [hpc EXCEPT ![r] = "join"]
  /\ wpc' = [wpc EXCEPT ![r] = "start"]
  /\ lastStarted' = r
  /\ UNCHANGED << data, hours, id, custom_parameters, result_holder, seconds,
                  combined_data, wret, engineCalls, posts, response >>

\* SimulateRespond with a fault: the response is built from the samples the
\* worker combined, whether or not the worker got as far as storing them.
SimulateRespond_ReadsCombined(r) ==
  /\ hpc[r] = "join"
  /\ wpc[r] = "done"
  /\ response' = [response EXCEPT ![r] =
       Some([jobStarted |-> TRUE, simulationResults |-> combined_data[r]])]
  /\ hpc' = [hpc EXCEPT ![r] = "responded"]
  /\ UNCHANGED << wpc, data, hours, id, custom_parameters, result_holder, seconds,
                  combined_data, wret, engineCalls, posts, lastStarted >>

\* simulate, lines 137-143: thread.join() returns once the worker has ended,
\* then the holder is read and the response is built.
SimulateRespond(r) ==
  /\ hpc[r] = "join"
  /\ wpc[r] = "done"
  /\ response' = [response EXCEPT ![r] =
       Some([jobStarted |-> TRUE, simulationResults |-> result_holder[r]])]
  /\ hpc' = [hpc EXCEPT ![r] = "responded"]
  /\ UNCHANGED << wpc, data, hours, id, custom_parameters, result_holder, seconds,
                  combined_data, wret, engineCalls, posts, lastStarted >>

\* The time series the engine returns for n time steps: the engine is opaque,
\* its entries are a function of its inputs.
Solution(params, secs, n) ==
  [time_s  |-> [i \in 1..n |-> IF n = 1 THEN 0 ELSE ((i - 1) * secs) \div (n - 1)],
   voltage |-> [i \in 1..n |-> params.upper - (i - 1)],
   current |-> [i \in 1..n |-> params.current],
   dcap    |-> [i \in 1..n |-> (i - 1) * params.current]]

\* Combine with a fault: the samples are built from the last entry to the
\* first.
Combine_Reversed(solution) ==
  [i \in 1..Len(solution.time_s) |->
     LET k == Len(solution.time_s) + 1 - i IN
     [time    |-> solution.time_s[k],
      voltage |-> solution.voltage[k],
      current |-> solution.current[k],
      dcap    |-> solution.dcap[k]]]

\* simulate_battery, lines 50-64
Combine(solution) ==
  [i \in 1..Len(solution.time_s) |->
     [time    |-> solution.time_s[i],
      voltage |-> solution.voltage[i],
      current |-> solution.current[i],
      dcap    |-> solution.dcap[i]]]

\* simulate_battery, lines 33-47: the model and the simulation are built, the
\* duration is converted and safe_sim.solve is entered.
WorkerSolve(r) ==
  /\ wpc[r] = "start"
  /\ seconds' = [seconds EXCEPT ![r] = hours[r] * 60 * 60]
  /\ engineCalls' = [engineCalls EXCEPT ![r] = @ + 1]
  /\ wpc' = [wpc EXCEPT ![r] = "solving"]
  /\ UNCHANGED << hpc, data, hours, id, custom_parameters, result_holder,
                  combined_data, wret, posts, response, lastStarted >>

\* simulate_battery, lines 47-64: solve returns and the samples are combined.
EngineSucceeds(r) ==
  /\ wpc[r] = "solving"
  /\ \E n \in 1..MaxSamples :
       combined_data' = [combined_data EXCEPT ![r] =
         Some(Combine(Solution(custom_parameters[r], seconds[r], n)))]
  /\ wpc' = [wpc EXCEPT ![r] = "post"]
  /\ UNCHANGED << hpc, data, hours, id, custom_parameters, result_holder, seconds,
                  wret, engineCalls, posts, response, lastStarted >>

\* simulate_battery, lines 74-75: solve raises pybamm.SolverError
EngineSolverError(r) ==
  /\ wpc[r] = "solving"
  /\ wret' = [wret EXCEPT ![r] = Some([error |-> << SolverPrefix, SolverErrorExc >>])]
  /\ wpc' = [wpc EXCEPT ![r] = "done"]
  /\ UNCHANGED << hpc, data, hours, id, custom_parameters, result_holder, seconds,
                  combined_data, engineCalls, posts, response, lastStarted >>

\* simulate_battery, lines 76-77: solve raises another exception
EngineException(r) ==
  /\ wpc[r] = "solving"
  /\ wret' = [wret EXCEPT ![r] = Some([error |-> << ErrorPrefix, OtherExc >>])]
  /\ wpc' = [wpc EXCEPT ![r] = "done"]
  /\ UNCHANGED << hpc, data, hours, id, custom_parameters, result_holder, seconds,
                  combined_data, engineCalls, posts, response, lastStarted >>

\* the JSON body of the callback, lines 67-70
CallbackBody(r) == [id |-> id[r], result |-> combined_data[r][1]]

\* PostDelivered with a fault: the POST is not made while the error of another
\* job is on record (state shared between the workers).
PostDelivered_BlockedByFailure(r) ==
  /\ wpc[r] = "post"
  /\ \A a \in Req \ {r} : wret[a] = None
  /\ posts' = [posts EXCEPT ![r] = Append(@, [json |-> CallbackBody(r), delivered |-> TRUE])]
  /\ wpc' = [wpc EXCEPT ![r] = "store"]
  /\ UNCHANGED << hpc, data, hours, id, custom_parameters, result_holder, seconds,
                  combined_data, wret, engineCalls, response, lastStarted >>

\* simulate_battery, lines 67-70: requests.post returns
PostDelivered(r) ==
  /\ wpc[r] = "post"
  /\ posts' = [posts EXCEPT ![r] = Append(@, [json |-> CallbackBody(r), delivered |-> TRUE])]
  /\ wpc' = [wpc EXCEPT ![r] = "store"]
  /\ UNCHANGED << hpc, data, hours, id, custom_parameters, result_holder, seconds,
                  combined_data, wret, engineCalls, response, lastStarted >>

\* PostFailed with a fault: the result is stored in the holder before the
\* POST is made (line 72 ahead of line 67), so a failed POST leaves both the
\* result and the error.
PostFailed_StoreFirst(r) ==
  /\ wpc[r] = "post"
  /\ result_holder' = [result_holder EXCEPT ![r] = combined_data[r]]
  /\ posts' = [posts EXCEPT ![r] = Append(@, [json |-> CallbackBody(r), delivered |-> FALSE])]
  /\ wret' = [wret EXCEPT ![r] = Some([error |-> << ErrorPrefix, ConnectionExc >>])]
  /\ wpc' = [wpc EXCEPT ![r] = "done"]
  /\ UNCHANGED << hpc, data, hours, id, custom_parameters, seconds,
                  combined_data, engineCalls, response, lastStarted >>

\* simulate_battery, lines 67-70 and 76-77: requests.post raises (connection
\* refused); the except clause returns the error.
PostFailed(r) ==
  /\ wpc[r] = "post"
  /\ posts' = [posts EXCEPT ![r] = Append(@, [json |-> CallbackBody(r), delivered |-> FALSE])]
  /\ wret' = [wret EXCEPT ![r] = Some([error |-> << ErrorPrefix, ConnectionExc >>])]
  /\ wpc' = [wpc EXCEPT ![r] = "done"]
  /\ UNCHANGED << hpc, data, hours, id, custom_parameters, result_holder, seconds,
                  combined_data, engineCalls, response, lastStarted >>

\* WorkerStore with a fault: one holder at module level, shared by all the
\* requests, instead of the holder made at line 131 for each request.
WorkerStore_SharedHolder(r) ==
  /\ wpc[r] = "store"
  /\ result_holder' = [q \in Req |-> combined_data[r]]
  /\ wpc' = [wpc EXCEPT ![r] = "done"]
  /\ UNCHANGED << hpc, data, hours, id, custom_parameters, seconds, combined_data,
                  wret, engineCalls, posts, response, lastStarted >>

\* simulate_battery, line 72
WorkerStore(r) ==
  /\ wpc[r] = "store"
  /\ result_holder' = [result_holder EXCEPT ![r] = combined_data[r]]
  /\ wpc' = [wpc EXCEPT ![r] = "done"]
  /\ UNCHANGED << hpc, data, hours, id, custom_parameters, seconds, combined_data,
                  wret, engineCalls, posts, response, lastStarted >>

Next ==
  \E r \in Req :
     \/ SimulatePrepare(r)
     \/ SimulateStart(r)
     \/ SimulateRespond(r)
     \/ WorkerSolve(r)
     \/ EngineSucceeds(r)
     \/ EngineSolverError(r)
     \/ EngineException(r)
     \/ PostDelivered(r)
     \/ PostFailed(r)
     \/ WorkerStore(r)

Spec == Init /\ [][Next]_vars

----------------------------------------------------------------------------
(* Views of the state the properties are stated on. *)

\* The request passed line 135: a job exists for it.
Accepted(r) == hpc[r] \in {"created", "join"} \/ wpc[r] # "none"

\* safe_sim.solve returned a solution / raised.
EngineSucceeded(r) == combined_data[r] # None
EngineRaised(r, exc) == wret[r] # None /\ wret[r][1].error[2] = exc
EngineFailed(r) == EngineRaised(r, SolverErrorExc) \/ EngineRaised(r, OtherExc)

\* The job's lifecycle as the program's state shows it: the Thread object
\* exists (Pending), the thread runs (Running), the thread has ended with
\* the result stored in the holder (Succeeded) or without it (Failed).
JobState(r) ==
  IF wpc[r] = "none" THEN (IF hpc[r] = "created" THEN "Pending" ELSE "NoJob")
  ELSE IF wpc[r] # "done" THEN "Running"
  ELSE IF result_holder[r] # None THEN "Succeeded" ELSE "Failed"

Terminal == {"Succeeded", "Failed"}

\* A reported outcome that carries the solver error.
ReportsSolverError(msg) ==
  /\ "error" \in DOMAIN msg
  /\ msg.error[1] = SolverPrefix
  /\ msg.error[2] # ""

----------------------------------------------------------------------------
\* C1: the acknowledgement of an accepted request can be produced while the
\* request's engine call is still running: whenever the handler has started
\* the worker and the engine is solving, the handler's response step is
\* enabled.
C1_AckWithoutWaiting ==
  \A r \in Req :
    (hpc[r] = "join" /\ wpc[r] = "solving") => ENABLED SimulateRespond(r)

\* C2: whenever the engine call of an accepted job has failed and the
\* worker has ended, the job is Failed and a callback delivery for the job
\* has been attempted.
C2_FailureReported ==
  \A r \in Req :
    (wpc[r] = "done" /\ EngineFailed(r)) =>
       /\ JobState(r) = "Failed"
       /\ Len(posts[r]) >= 1
       /\ \A i \in 1..Len(posts[r]) : posts[r][i].json.id = id[r]

\* C3: when all N requests were accepted and all N workers have ended, each
\* job has had exactly one callback.
C3_ExactlyOneCallbackEach ==
  (\A r \in Req : wpc[r] = "done") => (\A r \in Req : Len(posts[r]) = 1)

\* A request the normalizer is to reject: upper cutoff at most the lower
\* cutoff, or a duration that is not positive.
InvalidRequest(r) ==
  /\ Accepted(r)
  /\ \/ custom_parameters[r].upper <= custom_parameters[r].lower
     \/ hours[r] <= 0

\* C4: for a request whose upper cutoff is at most its lower cutoff, or
\* whose duration is not positive, the engine is never invoked and no
\* callback is ever sent.
C4_InvalidNeverDispatched ==
  \A r \in Req :
    InvalidRequest(r) => (engineCalls[r] = 0 /\ posts[r] = <<>>)

\* C5: two requests with the same job id never have their engine
\* invocations running at the same time.
C5_NoConcurrentEngineForSameId ==
  \A a, b \in Req :
    (a # b /\ Accepted(a) /\ Accepted(b) /\ id[a] = id[b] /\ id[a] # NoneId) =>
       ~(wpc[a] = "solving" /\ wpc[b] = "solving")

\* C6: a job whose engine call succeeded ends Succeeded with its
\* SeriesResult, also when the callback POST failed in transport.
C6_DeliveryFailureKeepsOutcome ==
  \A r \in Req :
    (wpc[r] = "done" /\ EngineSucceeded(r)) =>
       (JobState(r) = "Succeeded" /\ result_holder[r] = combined_data[r])

\* One step, seen from job r: its state moves only along the lifecycle, and
\* a POST is made for it only from a terminal state.
JobStep(r) ==
  /\ JobState(r)' # JobState(r) =>
       << JobState(r), JobState(r)' >> \in
          { << "NoJob", "Pending" >>, << "Pending", "Running" >>,
            << "Running", "Succeeded" >>, << "Running", "Failed" >> }
  /\ Len(posts'[r]) > Len(posts[r]) => JobState(r) \in Terminal

\* C7: every step changes a job's state only along Pending -> Running ->
\* Succeeded or Failed, never out of a terminal state, and a callback is
\* sent for a job only when the job is already in a terminal state.
C7_OrderedStatesCallbackAfterTerminal == [][\A r \in Req : JobStep(r)]_vars

\* C8: whenever job A's engine call has failed or is still running and
\* another job B's engine call has succeeded, B's callback can be sent (the
\* POST step of B is enabled) or has been sent, once, with B's id and B's
\* result; this holds whichever of A and B was submitted first.
C8_FailureDoesNotBlockOthers ==
  \A a, b \in Req :
    ( /\ a # b
      /\ EngineFailed(a) \/ wpc[a] \in {"start", "solving"}
      /\ EngineSucceeded(b) ) =>
        IF wpc[b] = "post"
        THEN posts[b] = <<>> /\ ENABLED PostDelivered(b)
        ELSE /\ Len(posts[b]) = 1
             /\ posts[b][1].json = [id |-> id[b], result |-> combined_data[b][1]]

\* C8, reached: B was started after A, A's engine call failed, and B's
\* callback with B's result was delivered.
C8_Witness ==
  \E a, b \in Req :
    /\ a # b
    /\ lastStarted = b /\ wpc[a] # "none"
    /\ EngineFailed(a)
    /\ EngineSucceeded(b)
    /\ Len(posts[b]) = 1
    /\ posts[b][1].delivered
    /\ posts[b][1].json = [id |-> id[b], result |-> combined_data[b][1]]

\* C9: every delivery ends in a successful POST or, after at least one
\* retry, in exhausted retries: a worker that has ended after a POST either
\* made a POST that was delivered or made more than one attempt.
C9_DeliveryRetried ==
  \A r \in Req :
    (wpc[r] = "done" /\ posts[r] # <<>>) =>
       \/ posts[r][Len(posts[r])].delivered
       \/ Len(posts[r]) >= 2

\* C10: when the engine raised a solver failure and the request has been
\* answered, the callback or the response carries the SolverError with a
\* non-empty message, and no SeriesResult is reported for the job.
C10_SolverErrorReported ==
  \A r \in Req :
    (hpc[r] = "responded" /\ EngineRaised(r, SolverErrorExc)) =>
       /\ \/ ReportsSolverError(response[r][1])
          \/ \E i \in 1..Len(posts[r]) : ReportsSolverError(posts[r][i].json)
       /\ posts[r] = <<>>
       /\ "simulationResults" \in DOMAIN response[r][1] =>
             response[r][1].simulationResults = None

\* C11: in every state no job has both a SeriesResult (the result in its
\* holder) and an ErrorInfo (the error its worker returned), and at most
\* one callback POST has been issued for the request.
C11_OneOutcomeDeliveredAtMostOnce ==
  \A r \in Req :
    /\ ~(result_holder[r] # None /\ wret[r] # None)
    /\ Len(posts[r]) <= 1

\* C11, reached: one job has ended with its result and one POST, another
\* has ended with an error after its one POST failed.
C11_Witness ==
  \E a, b \in Req :
    /\ wpc[a] = "done" /\ result_holder[a] # None /\ wret[a] = None
    /\ Len(posts[a]) = 1
    /\ wpc[b] = "done" /\ result_holder[b] = None /\ wret[b] # None
    /\ Len(posts[b]) = 1 /\ ~posts[b][1].delivered

\* res is a result the engine can compute for request r: the samples of a
\* run of Len(res) time steps on r's own parameter set and r's own end time.
OwnResult(r, res) ==
  /\ Len(res) \in 1..MaxSamples
  /\ LET sol == Solution(custom_parameters[r], seconds[r], Len(res)) IN
       \A i \in 1..Len(res) :
         res[i] = [time |-> sol.time_s[i], voltage |-> sol.voltage[i],
                   current |-> sol.current[i], dcap |-> sol.dcap[i]]

\* C12: under every interleaving the result recorded in a request's holder
\* and the result returned in its response were computed by that request's
\* own worker from that request's own parameters: the holder is written
\* only once the request's own worker has ended, and what it holds and what
\* the response carries is one of the request's own results.
C12_NoSharedResult ==
  \A r \in Req :
    /\ result_holder[r] # None =>
          (wpc[r] = "done" /\ result_holder[r] = combined_data[r]
                          /\ OwnResult(r, result_holder[r][1]))
    /\ (hpc[r] = "responded" /\ wpc[r] = "done") =>
          \/ response[r][1].simulationResults = None
          \/ OwnResult(r, response[r][1].simulationResults[1])

\* C12, reached: two requests with different parameters have both been
\* answered, each with its own recorded result, and the two results differ.
C12_Witness ==
  \E a, b \in Req :
    /\ a # b
    /\ custom_parameters[a] # custom_parameters[b]
    /\ hpc[a] = "responded" /\ hpc[b] = "responded"
    /\ result_holder[a] # None /\ result_holder[b] # None
    /\ result_holder[a] # result_holder[b]
    /\ response[a][1].simulationResults = result_holder[a]
    /\ response[b][1].simulationResults = result_holder[b]

\* The body of request r is a JSON object and simulate has read it.
Normalized(r) == hpc[r] # "idle" /\ data[r].isObject

\* Field `field` of the parameter set is the body's value under `key` when the
\* body has the key, and `default` when it has not.
FilledFrom(r, field, key, default) ==
  LET d == data[r].data IN
  IF key \in DOMAIN d THEN custom_parameters[r][field] = d[key]
                      ELSE custom_parameters[r][field] = default

\* C13: for every request read, each absent field has its default (upper
\* cutoff 4.2, lower cutoff 2.5, nominal capacity 8.6, control current 5,
\* duration 1 hour), each supplied field has its supplied value, and two
\* requests with the same body have the same parameter set and duration.
C13_DefaultsFillAbsentFields ==
  /\ \A r \in Req :
       Normalized(r) =>
         /\ FilledFrom(r, "upper", "upperVoltage", 42)
         /\ FilledFrom(r, "lower", "lowerVoltage", 25)
         /\ FilledFrom(r, "nominal", "nominalCell", 86)
         /\ FilledFrom(r, "current", "controlCurrent", 5)
         /\ hours[r] = (IF "time" \in DOMAIN data[r].data THEN data[r].data.time ELSE 1)
         /\ DOMAIN custom_parameters[r] = {"upper", "lower", "nominal", "current"}
  /\ \A a, b \in Req :
       (Normalized(a) /\ Normalized(b) /\ data[a].data = data[b].data) =>
         (custom_parameters[a] = custom_parameters[b] /\ hours[a] = hours[b])

\* C13, reached: one request with an empty body has all five defaults,
\* another supplied duration 2, capacity 9.0 and current 8 and kept them,
\* with the defaults in the two cutoffs it left out.
C13_Witness ==
  \E a, b \in Req :
    /\ Normalized(a) /\ DOMAIN data[a].data = {}
    /\ custom_parameters[a] = [upper |-> 42, lower |-> 25, nominal |-> 86, current |-> 5]
    /\ hours[a] = 1
    /\ Normalized(b) /\ DOMAIN data[b].data = {"id", "time", "nominalCell", "controlCurrent"}
    /\ custom_parameters[b] = [upper |-> 42, lower |-> 25, nominal |-> 90, current |-> 8]
    /\ hours[b] = 2

\* The callback json carries the id of request r and, for an engine run of
\* Len(result) time steps on r's parameters up to `hours * 3600` seconds,
\* sample i made of the i-th time, voltage, current and capacity entries.
CallbackOfEngineRun(r, json) ==
  LET res == json.result
      sol == Solution(custom_parameters[r], hours[r] * 3600, Len(res)) IN
  /\ json.id = (IF "id" \in DOMAIN data[r].data THEN data[r].data.id ELSE NoneId)
  /\ Len(res) \in 1..MaxSamples
  /\ \A i \in 1..Len(res) :
        /\ res[i].time = sol.time_s[i]
        /\ res[i].voltage = sol.voltage[i]
        /\ res[i].current = sol.current[i]
        /\ res[i].dcap = sol.dcap[i]

\* C14: every callback is sent after the engine succeeded, carries the id of
\* the request that started the job and one sample per engine time step in
\* the engine's order; the engine is called with the request's duration in
\* hours times 3600 as the end time in seconds.
C14_CallbackCarriesEngineSeries ==
  \A r \in Req :
    /\ engineCalls[r] > 0 => seconds[r] = hours[r] * 3600
    /\ \A i \in 1..Len(posts[r]) :
          EngineSucceeded(r) /\ CallbackOfEngineRun(r, posts[r][i].json)

\* C14, reached: a request with id J2 and duration 2 hours had the engine
\* called with 7200 seconds, the engine returned two time steps, and the
\* callback delivered carries J2 and the two samples, the one at 0 s first.
C14_Witness ==
  \E r \in Req :
    /\ id[r] = "J2" /\ hours[r] = 2 /\ seconds[r] = 7200
    /\ Len(posts[r]) = 1 /\ posts[r][1].delivered
    /\ posts[r][1].json.id = "J2"
    /\ Len(posts[r][1].json.result) = 2
    /\ posts[r][1].json.result[1].time = 0
    /\ posts[r][1].json.result[2].time = 7200

\* C15: the response of a request whose worker was started is jobStarted
\* true; its simulationResults is non-null only if the request's callback
\* POST has returned without raising, and is then the result sent in that
\* callback; when the engine or the callback POST raised it is null.
C15_ResponseResultsOnlyAfterCallback ==
  \A r \in Req :
    (hpc[r] = "responded" /\ wpc[r] # "none") =>
      LET resp == response[r][1] IN
      /\ DOMAIN resp = {"jobStarted", "simulationResults"}
      /\ resp.jobStarted = TRUE
      /\ resp.simulationResults # None =>
            /\ Len(posts[r]) = 1
            /\ posts[r][1].delivered
            /\ resp.simulationResults = Some(posts[r][1].json.result)
      /\ (wret[r] # None) => resp.simulationResults = None

\* C15, reached: one request was answered with the result its delivered
\* callback carried, another was answered with null results after its
\* callback POST raised.
C15_Witness ==
  \E a, b \in Req :
    /\ hpc[a] = "responded" /\ wpc[a] = "done"
    /\ response[a][1].simulationResults # None
    /\ posts[a] # <<>> /\ posts[a][1].delivered
    /\ response[a][1].simulationResults = Some(posts[a][1].json.result)
    /\ hpc[b] = "responded" /\ wpc[b] = "done"
    /\ posts[b] # <<>> /\ ~posts[b][1].delivered
    /\ response[b][1] = [jobStarted |-> TRUE, simulationResults |-> None]

\* The handling of request r raised before thread.start(): its body is no
\* JSON object, so data.get raised at line 87.
RaisedBeforeStart(r) == hpc[r] # "idle" /\ ~data[r].isObject

\* C16: a request whose handling raised before the worker thread was
\* started has been answered with an error body, has no worker, has had no
\* engine call and no callback, in every state from then on.
C16_EarlyErrorStartsNothing ==
  \A r \in Req :
    RaisedBeforeStart(r) =>
          /\ hpc[r] = "responded"
          /\ DOMAIN response[r][1] = {"error"}
          /\ response[r][1].error[2] # ""
          /\ wpc[r] = "none"
          /\ engineCalls[r] = 0
          /\ posts[r] = <<>>

\* C16, reached: one request was answered with the error body and started
\* nothing, while another request's worker ran the engine and posted.
C16_Witness ==
  \E a, b \in Req :
    /\ RaisedBeforeStart(a)
    /\ response[a] = Some([error |-> << NoPrefix, BodyExc >>])
    /\ wpc[a] = "none" /\ engineCalls[a] = 0 /\ posts[a] = <<>>
    /\ engineCalls[b] = 1 /\ Len(posts[b]) = 1 /\ hpc[b] = "responded"

====
